---------------------------- MODULE Spec2Model ----------------------------
(***************************************************************************)
(* Internet Stability Monitor (src/src/main.rs): the control-surface       *)
(* thread (eframe update), the probe-cycle threads spawned by              *)
(* check_connection, the render threads spawned by a threshold trigger,    *)
(* the marker timers, and the mutexes they share.                          *)
(*                                                                         *)
(* Time is the monotonic clock in whole seconds; it is observed at the     *)
(* instants of TimePoints.  A ping's measured round trip is an input, in   *)
(* microseconds, which as_millis() truncates to milliseconds.              *)
(***************************************************************************)
EXTENDS Integers, Sequences, FiniteSets, TLC

\* ---------------------------------------------------------------- bounds
\* Probe cycles dispatched in one run.
MaxProbes == 3
\* Marker timers pending at once.
MaxTimers == 2
\* Button clicks (Start/Stop, Clear Data, Log Data) in one run.
MaxClicks == 2
\* The same where a run has to start, stop and start again.
CadenceClicks == 3
\* The sample buffer's capacity: 100 in the source (main.rs:296), kept small
\* here so that eviction happens within MaxProbes cycles.
Capacity == 2

\* ------------------------------------------------------ program constants
Threshold == 175
DebounceSecs == 60
CheckIntervalSecs == 1
MarkerSecs == 2
ProbeBytes == 32
UsPerMs == 1000
ExportWindowSecs == 100

\* The instants at which the clock is observed (seconds).
TimePoints == {0, 1, 2, 3}
\* Round trips a successful ping can measure (microseconds).
RoundTripsUs == {400, 200000}
\* What one run of the Probe Executor can yield; us is the time the ping took,
\* which for a failed ping is the time until it gave up.
Unresolvable == [kind |-> "unresolvable", us |-> 0]
TransportError == [kind |-> "err", us |-> 2000000]
Ok(us) == [kind |-> "ok", us |-> us]
ProbeOutcomes == {Unresolvable, TransportError} \cup {Ok(u) : u \in RoundTripsUs}

VARIABLES
    now,                    \* the monotonic clock (seconds)
    is_monitoring,          \* InternetMonitor.is_monitoring
    start_time,             \* InternetMonitor.start_time   (Option)
    last_check,             \* InternetMonitor.last_check   (Option)
    status,                 \* *status
    response_times,         \* *response_times: sequence of <<elapsed, ms>>
    log_status,             \* *log_status (Option): the transient marker
    total_data_sent,        \* *total_data_sent
    longest_response_time,  \* *longest_response_time
    last_log_file_name,     \* *last_log_file_name (Option)
    last_log_time,          \* *last_log_time (Option)
    holder,                 \* who holds each mutex
    ui,                     \* the control-surface thread: pc and locals
    probes,                 \* the probe-cycle threads, in dispatch order
    renders,                \* the render threads, in spawn order
    timers,                 \* the pending marker timers: their wake-up times
    files,                  \* the files written: name -> content
    hist                    \* history: what has happened so far

vars == <<now, is_monitoring, start_time, last_check, status, response_times,
          log_status, total_data_sent, longest_response_time,
          last_log_file_name, last_log_time, holder, ui, probes, renders,
          timers, files, hist>>

shared == <<status, response_times, log_status, total_data_sent,
            longest_response_time, last_log_file_name, last_log_time>>
session == <<is_monitoring, start_time, last_check>>

\* ---------------------------------------------------------------- helpers
None == <<>>
Some(x) == <<x>>
IsSome(o) == o # None
Unwrap(o) == o[1]

Target == "google.com"
Locks == {"status", "response_times", "longest_response_time", "total_data_sent"}
Free == <<"free", 0>>
UiThread == <<"ui", 0>>
ProbeThread(i) == <<"probe", i>>
RenderThread(j) == <<"render", j>>

\* t.elapsed() at the instant `now`
Elapsed(t) == now - t

\* Duration::as_millis() as f64: whole milliseconds, the rest cut off
AsMillis(us) == us \div UsPerMs

RECURSIVE SumMs(_)
SumMs(data) == IF data = <<>> THEN 0 ELSE data[1][2] + SumMs(Tail(data))

RECURSIVE MaxOf(_)
MaxOf(s) ==
    IF s = <<>> THEN 0
    ELSE LET m == MaxOf(Tail(s)) IN IF s[1] > m THEN s[1] ELSE m

\* format!("{:.0}", x) of the quotient n/d: rounded to the nearest integer, ties
\* to even
RoundDiv(n, d) ==
    LET q == n \div d
        r == n % d
    IN  IF 2 * r < d THEN q
        ELSE IF 2 * r > d THEN q + 1
        ELSE IF q % 2 = 0 THEN q ELSE q + 1

\* data.iter().map(|(_, rt)| rt).sum::<f64>() / data.len() as f64, as printed
AverageResponseTime(data) ==
    IF data # <<>> THEN RoundDiv(SumMs(data), Len(data)) ELSE 0

\* format!("log_{}.txt", Local::now().format("%Y%m%d%H%M%S")): one name a second
LogFileName(t) == <<"log_", t, ".txt">>
ManualFileName == <<"log", 0, ".txt">>

\* ------------------------------------------------------------------- Init
\* Nothing has happened yet; budget is the number of button clicks the run
\* may take.
History(budget) ==
    [appended |-> <<>>, starts |-> <<>>, recorded |-> 0, max_ever |-> 0,
     dropped |-> 0, autologs |-> <<>>, started |-> FALSE,
     active_since_clear |-> FALSE, clicks |-> 0, budget |-> budget,
     last_dispatch |-> None, marked |-> None, export |-> "none",
     max_cleared |-> 0]

\* InternetMonitor::default(), with the clock at 0.
Constructed(budget) ==
    /\ now = 0
    /\ is_monitoring = FALSE
    /\ start_time = None
    /\ last_check = None
    /\ status = "Not checked yet"
    /\ response_times = <<>>
    /\ log_status = None
    /\ total_data_sent = 0
    /\ longest_response_time = 0
    /\ last_log_file_name = None
    /\ last_log_time = None
    /\ holder = [l \in Locks |-> Free]
    /\ ui = [pc |-> "idle"]
    /\ probes = <<>>
    /\ renders = <<>>
    /\ timers = <<>>
    /\ files = {}
    /\ hist = History(budget)

Init == Constructed(MaxClicks)

\* ------------------------------------------------------------ mutexes
Acquire(l, who) == [holder EXCEPT ![l] = who]
ReleaseAll(who) == [l \in Locks |-> IF holder[l] = who THEN Free ELSE holder[l]]

\* SpawnTimer with a timer that sleeps a second longer.
SpawnTimerLate == Append(timers, now + MarkerSecs + 1)

\* thread::spawn of a marker timer: sleep(2 s), then *log_status = None
SpawnTimer == Append(timers, now + MarkerSecs)

\* ------------------------------------------- control surface (update)
\* The Start/Stop button.
ToggleMonitoring ==
    /\ ui.pc = "idle"
    /\ hist.clicks < hist.budget
    /\ holder["status"] = Free
    /\ is_monitoring' = ~is_monitoring
    /\ IF is_monitoring'
       THEN /\ status' = "Monitoring google.com..."
            /\ start_time' = Some(now)
            /\ last_check' = Some(now)
            /\ hist' = [hist EXCEPT !.started = TRUE, !.active_since_clear = TRUE,
                                    !.clicks = @ + 1]
       ELSE /\ status' = "Not monitoring"
            /\ hist' = [hist EXCEPT !.clicks = @ + 1]
            /\ UNCHANGED <<start_time, last_check>>
    /\ UNCHANGED <<now, response_times, log_status, total_data_sent,
                   longest_response_time, last_log_file_name, last_log_time,
                   holder, ui, probes, renders, timers, files>>

\* ClearStatus forgetting the session's start_time and last_check as well.
ClearStatusResetsSession ==
    /\ ui.pc = "idle"
    /\ hist.clicks < hist.budget
    /\ Len(timers) < MaxTimers
    /\ holder["status"] = Free
    /\ is_monitoring' = FALSE
    /\ start_time' = None
    /\ last_check' = None
    /\ holder' = [holder EXCEPT !["status"] = <<"ui", 0>>]
    /\ status' = "Not monitoring"
    /\ ui' = [pc |-> "clear_data"]
    /\ hist' = [hist EXCEPT !.clicks = @ + 1, !.active_since_clear = FALSE]
    /\ UNCHANGED <<now, response_times, log_status, total_data_sent,
                   longest_response_time, last_log_file_name, last_log_time,
                   probes, renders, timers, files>>

\* The Clear Data button, up to its lock on status.
ClearStatus ==
    /\ ui.pc = "idle"
    /\ hist.clicks < hist.budget
    /\ Len(timers) < MaxTimers
    /\ holder["status"] = Free
    /\ is_monitoring' = FALSE
    /\ holder' = Acquire("status", UiThread)
    /\ status' = "Not monitoring"
    /\ ui' = [pc |-> "clear_data"]
    /\ hist' = [hist EXCEPT !.clicks = @ + 1, !.active_since_clear = FALSE]
    /\ UNCHANGED <<now, start_time, last_check, response_times, log_status,
                   total_data_sent, longest_response_time, last_log_file_name,
                   last_log_time, probes, renders, timers, files>>

\* ClearData leaving the samples where they are.
ClearDataKeeps ==
    /\ ui.pc = "clear_data"
    /\ holder["response_times"] = Free
    /\ holder' = [holder EXCEPT !["response_times"] = <<"ui", 0>>]
    /\ ui' = [pc |-> "clear_total"]
    /\ UNCHANGED <<now, session, shared, probes, renders, timers, files, hist>>

\* Clear Data: lock response_times and clear it.
ClearData ==
    /\ ui.pc = "clear_data"
    /\ holder["response_times"] = Free
    /\ holder' = Acquire("response_times", UiThread)
    /\ response_times' = <<>>
    /\ hist' = [hist EXCEPT !.appended = <<>>, !.starts = <<>>,
                            !.max_cleared = hist.max_ever]
    /\ ui' = [pc |-> "clear_total"]
    /\ UNCHANGED <<now, session, status, log_status, total_data_sent,
                   longest_response_time, last_log_file_name, last_log_time,
                   probes, renders, timers, files>>

\* ClearTotal resetting the high-water mark and the debounce as well.
ClearTotalResetsAll ==
    /\ ui.pc = "clear_total"
    /\ holder["total_data_sent"] = <<"free", 0>>
    /\ total_data_sent' = 0
    /\ longest_response_time' = 0
    /\ last_log_time' = <<>>
    /\ log_status' = <<"Data cleared">>
    /\ timers' = Append(timers, now + MarkerSecs)
    /\ holder' = [l \in Locks |-> IF holder[l] = <<"ui", 0>> THEN <<"free", 0>>
                                   ELSE holder[l]]
    /\ ui' = [pc |-> "idle"]
    /\ hist' = [hist EXCEPT !.marked = <<now>>]
    /\ UNCHANGED <<now, is_monitoring, start_time, last_check, status,
                   response_times, last_log_file_name, probes, renders, files>>

\* Clear Data: lock total_data_sent and reset it, set the marker, start its
\* timer; the block ends and every guard is dropped.
ClearTotal ==
    /\ ui.pc = "clear_total"
    /\ holder["total_data_sent"] = Free
    /\ total_data_sent' = 0
    /\ log_status' = Some("Data cleared")
    /\ timers' = SpawnTimer
    /\ holder' = ReleaseAll(UiThread)
    /\ ui' = [pc |-> "idle"]
    /\ hist' = [hist EXCEPT !.marked = Some(now)]
    /\ UNCHANGED <<now, session, status, response_times,
                   longest_response_time, last_log_file_name, last_log_time,
                   probes, renders, files>>

\* thread::spawn in check_connection: the clones the new thread takes.
NewProbe ==
    [pc |-> "run", start_time_clone |-> start_time, result |-> "none", ms |-> 0,
     elapsed |-> 0]

\* Due without the wait since last_check.
DueAnyTime ==
    /\ is_monitoring
    /\ IsSome(last_check)

\* Whether this poll dispatches a probe cycle.
Due ==
    /\ is_monitoring
    /\ IsSome(last_check)
    /\ Elapsed(Unwrap(last_check)) >= CheckIntervalSecs

\* One frame's reads and tick policy as a whole: the guards on status,
\* response_times and total_data_sent are taken, the cycle is dispatched if
\* due, and the guards are dropped.  A frame writes nothing under its guards,
\* so the frame taken at the instant it holds all three stands for it.
Poll ==
    /\ ui.pc = "idle"
    /\ \A l \in {"status", "response_times", "total_data_sent"} : holder[l] = Free
    /\ Due
    /\ Len(probes) < MaxProbes
    /\ probes' = Append(probes, NewProbe)
    /\ last_check' = Some(now)
    /\ hist' = [hist EXCEPT !.last_dispatch = Some(now)]
    /\ UNCHANGED <<now, is_monitoring, start_time, shared, holder, ui, renders,
                   timers, files>>

\* The same frame lock by lock: lock status.
PollStatus ==
    /\ ui.pc = "idle"
    /\ holder["status"] = Free
    /\ holder' = Acquire("status", UiThread)
    /\ ui' = [pc |-> "poll_data"]
    /\ UNCHANGED <<now, session, shared, probes, renders, timers, files, hist>>

PollData ==
    /\ ui.pc = "poll_data"
    /\ holder["response_times"] = Free
    /\ holder' = Acquire("response_times", UiThread)
    /\ ui' = [pc |-> "poll_total"]
    /\ UNCHANGED <<now, session, shared, probes, renders, timers, files, hist>>

PollTotal ==
    /\ ui.pc = "poll_total"
    /\ holder["total_data_sent"] = Free
    /\ IF Due /\ Len(probes) < MaxProbes
       THEN /\ probes' = Append(probes, NewProbe)
            /\ last_check' = Some(now)
            /\ hist' = [hist EXCEPT !.last_dispatch = Some(now)]
       ELSE UNCHANGED <<probes, last_check, hist>>
    /\ holder' = ReleaseAll(UiThread)
    /\ ui' = [pc |-> "idle"]
    /\ UNCHANGED <<now, is_monitoring, start_time, shared, renders, timers,
                   files>>

\* ------------------------------------------------ manual export (log_data)
\* PassesFilter letting through the sample that is exactly on the cut.
PassesFilterAtOrAfter(sample, start, end_time) ==
    sample[1] >= (IF end_time - start > 0 THEN end_time - start ELSE 0)

\* Duration::from_secs_f64(elapsed) > end_time.duration_since(start_time), the
\* latter saturating at zero
PassesFilter(sample, start, end_time) ==
    sample[1] > (IF end_time - start > 0 THEN end_time - start ELSE 0)

FilterData(data, start, end_time) ==
    SelectSeq(data, LAMBDA sample : PassesFilter(sample, start, end_time))

\* The text written to a log file, without its "Log Created" line.
LogContent(lines, data, total, longest) ==
    IF lines # <<>>
    THEN [body |-> "data", average |-> AverageResponseTime(data),
          longest |-> longest, total |-> total, lines |-> lines]
    ELSE [body |-> "No data to log.", average |-> 0, longest |-> 0,
          total |-> 0, lines |-> <<>>]

EmptyFile == [body |-> "", average |-> 0, longest |-> 0, total |-> 0, lines |-> <<>>]

\* File::create(name) then writeln!(file, content)
FileOutcomes == {"ok", "create_fails", "write_fails"}
FileFailures == {"create_fails", "write_fails"}
WriteFile(name, content, outcome) ==
    IF outcome = "create_fails" THEN files
    ELSE {f \in files : f.name # name}
         \cup {[name |-> name,
                content |-> IF outcome = "ok" THEN content ELSE EmptyFile]}

\* WrittenOrNot taking a failed write for a written file.
WrittenOrNot(outcome) == TRUE

\* Neither File::create nor writeln! returned an error, so log_data goes on to
\* the marker.
Written(outcome) == outcome = "ok"

\* The Log Data button: start_time and end_time are taken before the lock.
ExportBegin ==
    /\ ui.pc = "idle"
    /\ hist.clicks < hist.budget
    /\ Len(timers) < MaxTimers
    /\ ui' = [pc |-> "export_data",
              start |-> IF IsSome(start_time) THEN Unwrap(start_time) ELSE now,
              end_time |-> now - ExportWindowSecs]
    /\ hist' = [hist EXCEPT !.clicks = @ + 1]
    /\ UNCHANGED <<now, session, shared, holder, probes, renders, timers,
                   files>>

ExportLockData ==
    /\ ui.pc = "export_data"
    /\ holder["response_times"] = Free
    /\ holder' = Acquire("response_times", UiThread)
    /\ ui' = [ui EXCEPT !.pc = "export_total"]
    /\ UNCHANGED <<now, session, shared, probes, renders, timers, files, hist>>

\* ExportReadTotal reading under the mutex of status, which log_data would
\* then take after the one of response_times.
ExportReadTotalUnderStatus ==
    /\ ui.pc = "export_total"
    /\ holder["status"] = <<"free", 0>>
    /\ ui' = [pc |-> "export_longest", start |-> ui.start,
              end_time |-> ui.end_time, total |-> total_data_sent]
    /\ UNCHANGED <<now, is_monitoring, start_time, last_check, status,
                   response_times, log_status, total_data_sent,
                   longest_response_time, last_log_file_name, last_log_time,
                   holder, probes, renders, timers, files, hist>>

ExportReadTotal ==
    /\ ui.pc = "export_total"
    /\ holder["total_data_sent"] = Free
    /\ ui' = [pc |-> "export_longest", start |-> ui.start,
              end_time |-> ui.end_time, total |-> total_data_sent]
    /\ UNCHANGED <<now, session, shared, holder, probes, renders, timers,
                   files, hist>>

ExportReadLongest ==
    /\ ui.pc = "export_longest"
    /\ holder["longest_response_time"] = Free
    /\ ui' = [pc |-> "export_write", start |-> ui.start,
              end_time |-> ui.end_time, total |-> ui.total,
              longest |-> longest_response_time]
    /\ UNCHANGED <<now, session, shared, holder, probes, renders, timers,
                   files, hist>>

ExportWrite(outcome) ==
    /\ ui.pc = "export_write"
    /\ files' = WriteFile(ManualFileName,
                          LogContent(FilterData(response_times, ui.start, ui.end_time),
                                     response_times, ui.total, ui.longest),
                          outcome)
    /\ IF Written(outcome)
       THEN /\ log_status' = Some("done")
            /\ timers' = SpawnTimer
            /\ hist' = [hist EXCEPT !.export = outcome, !.marked = Some(now)]
       ELSE /\ hist' = [hist EXCEPT !.export = outcome]
            /\ UNCHANGED <<log_status, timers>>
    /\ holder' = ReleaseAll(UiThread)
    /\ ui' = [pc |-> "idle"]
    /\ UNCHANGED <<now, session, status, response_times, total_data_sent,
                   longest_response_time, last_log_file_name, last_log_time,
                   probes, renders>>

\* ------------------------------------------------------ marker timers
TimerFire(k) ==
    /\ k \in 1..Len(timers)
    /\ timers[k] <= now
    /\ log_status' = None
    /\ timers' = SubSeq(timers, 1, k - 1) \o SubSeq(timers, k + 1, Len(timers))
    /\ UNCHANGED <<now, session, status, response_times, total_data_sent,
                   longest_response_time, last_log_file_name, last_log_time,
                   holder, ui, probes, renders, files, hist>>

\* --------------------------------------- probe cycle (check_connection)
\* ResponseTimeMs taking the elapsed time of a failed ping too.
ResponseTimeMsAlways(outcome) == AsMillis(outcome.us)

\* match result { Ok(_) => start_time.elapsed().as_millis() as f64, Err(_) => 0.0 }
ResponseTimeMs(outcome) ==
    IF outcome.kind = "ok" THEN AsMillis(outcome.us) ELSE 0

StatusMessage(ms) ==
    IF ms > 0 THEN "Connected to google.com." ELSE "Disconnected from google.com."

\* ElapsedSinceStart counting down instead of up.
ElapsedSinceStartReversed(start_time_clone) ==
    IF IsSome(start_time_clone) THEN Unwrap(start_time_clone) - now ELSE 0

\* Instant::now().duration_since(start_time).as_secs_f64(), 0.0 without a
\* start_time
ElapsedSinceStart(start_time_clone) ==
    IF IsSome(start_time_clone) THEN now - Unwrap(start_time_clone) ELSE 0

\* NewLongest with the comparison turned round.
NewLongestFlipped(ms, longest) == ms < longest

\* if response_time_ms > *longest_response_time
NewLongest(ms, longest) == ms > longest

\* OverThreshold with the threshold itself counted as over it.
AtOrOverThreshold(ms) == ms >= Threshold

\* if response_time_ms > 175.0
OverThreshold(ms) == ms > Threshold

\* DebouncePassed with the debounce left out.
DebounceOff(llt) == TRUE

\* last_log_time.map_or(true, |t| t.elapsed() >= Duration::from_secs(60))
DebouncePassed(llt) ==
    IF IsSome(llt) THEN Elapsed(Unwrap(llt)) >= DebounceSecs ELSE TRUE

\* CountProbe counting the bytes twice.
CountProbeTwice(total) == total + ProbeBytes + ProbeBytes

\* *total_data_sent += 32
CountProbe(total) == total + ProbeBytes

\* Evict with the newest sample removed instead of the oldest.
EvictNewest(data) ==
    IF Len(data) > Capacity THEN SubSeq(data, 1, Len(data) - 1) ELSE data

\* if data.len() > 100 { data.remove(0); }
Evict(data) == IF Len(data) > Capacity THEN Tail(data) ELSE data

\* A thread that has ended.
Finished ==
    [pc |-> "done", start_time_clone |-> None, result |-> "none", ms |-> 0,
     elapsed |-> 0]

\* Resolve the target and ping it, which touches nothing shared; an
\* unresolvable target ends the thread.  Then lock status (kept to the end of
\* the thread), write the message and take elapsed_since_start.
ProbeRun(i, outcome) ==
    /\ probes[i].pc = "run"
    /\ IF outcome.kind = "unresolvable"
       THEN /\ probes' = [probes EXCEPT ![i] = Finished]
            /\ hist' = [hist EXCEPT !.dropped = @ + 1]
            /\ UNCHANGED <<holder, status>>
       ELSE /\ holder["status"] = Free
            /\ holder' = Acquire("status", ProbeThread(i))
            /\ status' = StatusMessage(ResponseTimeMs(outcome))
            /\ probes' = [probes EXCEPT ![i] =
                  [pc |-> "lock_data",
                   start_time_clone |-> probes[i].start_time_clone,
                   result |-> outcome.kind,
                   ms |-> ResponseTimeMs(outcome),
                   elapsed |-> ElapsedSinceStart(probes[i].start_time_clone)]]
            /\ UNCHANGED hist
    /\ UNCHANGED <<now, session, response_times, log_status, total_data_sent,
                   longest_response_time, last_log_file_name, last_log_time,
                   ui, renders, timers, files>>

\* Lock response_times (kept to the end) and push the sample.
ProbeLockData(i) ==
    /\ probes[i].pc = "lock_data"
    /\ holder["response_times"] = Free
    /\ holder' = Acquire("response_times", ProbeThread(i))
    /\ response_times' = Append(response_times, <<probes[i].elapsed, probes[i].ms>>)
    /\ hist' = [hist EXCEPT
                  !.appended = Append(@, <<probes[i].elapsed, probes[i].ms>>),
                  !.starts = Append(@, probes[i].start_time_clone),
                  !.recorded = @ + 1,
                  !.max_ever = IF probes[i].ms > @ THEN probes[i].ms ELSE @]
    /\ probes' = [probes EXCEPT ![i].pc = "lock_longest"]
    /\ UNCHANGED <<now, session, status, log_status, total_data_sent,
                   longest_response_time, last_log_file_name, last_log_time,
                   ui, renders, timers, files>>

\* Whether this cycle creates a threshold-triggered log.
Triggers(ms) ==
    /\ NewLongest(ms, longest_response_time)
    /\ OverThreshold(ms)
    /\ DebouncePassed(last_log_time)

NewRender(name) == [pc |-> "lock_data", name |-> name, total |-> 0, longest |-> 0]

\* Lock longest_response_time (kept to the end), raise the high-water mark,
\* and run the threshold logger under the locks on last_log_time and
\* last_log_file_name.
ProbeLongest(i) ==
    /\ probes[i].pc = "lock_longest"
    /\ holder["longest_response_time"] = Free
    /\ holder' = Acquire("longest_response_time", ProbeThread(i))
    /\ longest_response_time' =
          IF NewLongest(probes[i].ms, longest_response_time)
          THEN probes[i].ms ELSE longest_response_time
    /\ IF Triggers(probes[i].ms)
       THEN /\ last_log_file_name' = Some(LogFileName(now))
            /\ renders' = Append(renders, NewRender(LogFileName(now)))
            /\ last_log_time' = Some(now)
            /\ hist' = [hist EXCEPT !.autologs =
                          Append(@, [at |-> now, name |-> LogFileName(now),
                                     by |-> i])]
       ELSE UNCHANGED <<last_log_file_name, renders, last_log_time, hist>>
    /\ probes' = [probes EXCEPT ![i].pc = "lock_total"]
    /\ UNCHANGED <<now, session, status, response_times, log_status,
                   total_data_sent, ui, timers, files>>

\* Lock total_data_sent (kept to the end), count the probe's bytes, evict.
ProbeTotal(i) ==
    /\ probes[i].pc = "lock_total"
    /\ holder["total_data_sent"] = Free
    /\ holder' = Acquire("total_data_sent", ProbeThread(i))
    /\ total_data_sent' = CountProbe(total_data_sent)
    /\ response_times' = Evict(response_times)
    /\ probes' = [probes EXCEPT ![i].pc = "sleep"]
    /\ UNCHANGED <<now, session, status, log_status, longest_response_time,
                   last_log_file_name, last_log_time, ui, renders, timers,
                   files, hist>>

\* thread::sleep(100 ms) is over; the closure ends and drops its guards.
ProbeExit(i) ==
    /\ probes[i].pc = "sleep"
    /\ holder' = ReleaseAll(ProbeThread(i))
    /\ probes' = [probes EXCEPT ![i] = Finished]
    /\ UNCHANGED <<now, session, shared, ui, renders, timers, files, hist>>

\* ------------------------------------------------------ render thread
\* RenderLockData reading the samples without their mutex.
RenderLockDataUnlocked(j) ==
    /\ renders[j].pc = "lock_data"
    /\ renders' = [renders EXCEPT ![j].pc = "read_total"]
    /\ UNCHANGED <<now, is_monitoring, start_time, last_check, status,
                   response_times, log_status, total_data_sent,
                   longest_response_time, last_log_file_name, last_log_time,
                   holder, ui, probes, timers, files, hist>>

RenderLockData(j) ==
    /\ renders[j].pc = "lock_data"
    /\ holder["response_times"] = Free
    /\ holder' = Acquire("response_times", RenderThread(j))
    /\ renders' = [renders EXCEPT ![j].pc = "read_total"]
    /\ UNCHANGED <<now, session, shared, ui, probes, timers, files, hist>>

RenderReadTotal(j) ==
    /\ renders[j].pc = "read_total"
    /\ holder["total_data_sent"] = Free
    /\ renders' = [renders EXCEPT ![j].pc = "read_longest",
                                  ![j].total = total_data_sent]
    /\ UNCHANGED <<now, session, shared, holder, ui, probes, timers, files, hist>>

RenderReadLongest(j) ==
    /\ renders[j].pc = "read_longest"
    /\ holder["longest_response_time"] = Free
    /\ renders' = [renders EXCEPT ![j].pc = "write",
                                  ![j].longest = longest_response_time]
    /\ UNCHANGED <<now, session, shared, holder, ui, probes, timers, files, hist>>

RenderWrite(j, outcome) ==
    /\ renders[j].pc = "write"
    /\ files' = WriteFile(renders[j].name,
                          LogContent(response_times, response_times,
                                     renders[j].total, renders[j].longest),
                          outcome)
    /\ holder' = ReleaseAll(RenderThread(j))
    /\ renders' = [renders EXCEPT ![j] =
                     [pc |-> "done", name |-> None, total |-> 0, longest |-> 0]]
    /\ UNCHANGED <<now, session, shared, ui, probes, timers, hist>>

\* ---------------------------------------------- who waits for which mutex
\* The mutex the control-surface thread is about to lock, "none" if none.
UiWants ==
    CASE ui.pc \in {"clear_data", "poll_data", "export_data"} -> "response_times"
      [] ui.pc \in {"clear_total", "poll_total", "export_total"} -> "total_data_sent"
      [] ui.pc = "export_longest" -> "longest_response_time"
      [] OTHER -> "none"

ProbeWants(i) ==
    CASE probes[i].pc = "run" -> "status"
      [] probes[i].pc = "lock_data" -> "response_times"
      [] probes[i].pc = "lock_longest" -> "longest_response_time"
      [] probes[i].pc = "lock_total" -> "total_data_sent"
      [] OTHER -> "none"

RenderWants(j) ==
    CASE renders[j].pc = "lock_data" -> "response_times"
      [] renders[j].pc = "read_total" -> "total_data_sent"
      [] renders[j].pc = "read_longest" -> "longest_response_time"
      [] OTHER -> "none"

Threads ==
    {UiThread} \cup {ProbeThread(i) : i \in 1..Len(probes)}
               \cup {RenderThread(j) : j \in 1..Len(renders)}

Wants(t) ==
    IF t = UiThread THEN UiWants
    ELSE IF t[1] = "probe" THEN ProbeWants(t[2]) ELSE RenderWants(t[2])

\* ------------------------------------------------------------------- Next
Tick(times) ==
    /\ \E t \in times : t > now /\ now' = t
    /\ UNCHANGED <<session, shared, holder, ui, probes, renders, timers,
                   files, hist>>

\* thread::sleep(2 s) is over when the 2 s are: a timer that is due writes
\* before the clock is seen at a later instant, and the clock is seen at the
\* instant a timer wakes.
TickTimely(times) ==
    /\ \E t \in times \cup {timers[k] : k \in 1..Len(timers)} :
          /\ t > now
          /\ \A k \in 1..Len(timers) : now < timers[k] /\ t <= timers[k]
          /\ now' = t
    /\ UNCHANGED <<session, shared, holder, ui, probes, renders, timers,
                   files, hist>>

\* A button is clicked.
Click ==
    \/ ToggleMonitoring
    \/ ClearStatus
    \/ ExportBegin

\* The control-surface thread goes on with the handler it is in.
Handler(fileOutcomes) ==
    \/ ClearData
    \/ ClearTotal
    \/ ExportLockData
    \/ ExportReadTotal
    \/ ExportReadLongest
    \/ \E outcome \in fileOutcomes : ExportWrite(outcome)

\* Probe thread i takes a step.
ProbeStep(i, outcomes) ==
    \/ \E outcome \in outcomes : ProbeRun(i, outcome)
    \/ ProbeLockData(i)
    \/ ProbeLongest(i)
    \/ ProbeTotal(i)
    \/ ProbeExit(i)

\* Render thread j takes a step.
RenderStep(j, fileOutcomes) ==
    \/ RenderLockData(j)
    \/ RenderReadTotal(j)
    \/ RenderReadLongest(j)
    \/ \E outcome \in fileOutcomes : RenderWrite(j, outcome)

Step(outcomes, fileOutcomes, times) ==
    \/ Click
    \/ Handler(fileOutcomes)
    \/ Poll
    \/ \E k \in 1..Len(timers) : TimerFire(k)
    \/ \E i \in 1..Len(probes) : ProbeStep(i, outcomes)
    \/ \E j \in 1..Len(renders) : RenderStep(j, fileOutcomes)
    \/ Tick(times)

Next == Step(ProbeOutcomes, FileOutcomes, TimePoints)

Spec == Init /\ [][Next]_vars

\* The threshold logger's cases: every ping succeeds, with latencies on both
\* sides of the threshold, and the clock reaches the ends of the debounce
\* window.  What a render writes feeds back into nothing the logger reads, so
\* here its file is created empty or not at all, and the contents of the files
\* are left to Spec.
DebounceRoundTripsUs == {50000, 60000, 175000, 200000, 300000}
DebounceTimePoints == {1, 61, 71}

NextDebounce ==
    Step({Ok(u) : u \in DebounceRoundTripsUs}, FileFailures, DebounceTimePoints)

SpecDebounce == Init /\ [][NextDebounce]_vars

\* The manual export's cases: the clock passes the export window, so that the
\* filter has samples on both sides of its cut, one of them a failed ping.
ExportTimePoints == {1, 101, 102}

NextExport ==
    Step({TransportError, Ok(200000)}, FileOutcomes, ExportTimePoints)

SpecExport == Init /\ [][NextExport]_vars

\* The tick policy's cases: monitoring is started, stopped and started again
\* while cycles are in flight.
NextCadence == Step({Unresolvable, Ok(200000)}, FileFailures, TimePoints)

SpecCadence == Constructed(CadenceClicks) /\ [][NextCadence]_vars

\* The marker's cases: an export sets the marker as a clear does; the clock is
\* timely, it goes on, and a timer that is due runs.
TimelyOutcomes == {Unresolvable, Ok(200000)}
TimelyFileOutcomes == {"ok", "create_fails"}
TimelyTimePoints == {0, 1, 2}

NextTimely ==
    \/ Click
    \/ Handler(TimelyFileOutcomes)
    \/ Poll
    \/ \E k \in 1..Len(timers) : TimerFire(k)
    \/ \E i \in 1..Len(probes) : ProbeStep(i, TimelyOutcomes)
    \/ \E j \in 1..Len(renders) : RenderStep(j, TimelyFileOutcomes)
    \/ TickTimely(TimelyTimePoints)

SpecTimely ==
    /\ Init
    /\ [][NextTimely]_vars
    /\ WF_vars(\E k \in 1..Len(timers) : TimerFire(k))
    /\ WF_vars(TickTimely(TimelyTimePoints))

\* Scheduling: every frame takes its locks one by one and the clock is timely.
\* Of the spawned threads that can run, or could if a mutex that is free
\* again and again were theirs, one does (the control surface sleeps between
\* two frames with every mutex free); this asks less than a turn for each of
\* them.  The control surface finishes the handler and the frame it is in.
\* What a file write returns decides nothing about a mutex: here it fails,
\* as in SpecDebounce.
FairOutcomes == {Unresolvable, Ok(200000)}
FairFileOutcomes == {"create_fails", "write_fails"}
FairTimePoints == {0, 1, 2}

NextFair ==
    \/ Click
    \/ Handler(FairFileOutcomes)
    \/ PollStatus
    \/ PollData
    \/ PollTotal
    \/ \E k \in 1..Len(timers) : TimerFire(k)
    \/ \E i \in 1..Len(probes) : ProbeStep(i, FairOutcomes)
    \/ \E j \in 1..Len(renders) : RenderStep(j, FairFileOutcomes)
    \/ TickTimely(FairTimePoints)

Spawned ==
    \/ \E i \in 1..Len(probes) : ProbeStep(i, FairOutcomes)
    \/ \E j \in 1..Len(renders) : RenderStep(j, FairFileOutcomes)

Fairness ==
    /\ SF_vars(Spawned)
    /\ SF_vars(Handler(FairFileOutcomes) \/ PollData \/ PollTotal)
    /\ WF_vars(\E k \in 1..Len(timers) : TimerFire(k))
    /\ WF_vars(TickTimely(FairTimePoints))

SpecFair == Init /\ [][NextFair]_vars /\ Fairness

\* =================================================================== claims
Latencies(data) == [k \in 1..Len(data) |-> data[k][2]]

\* The last n elements of s, all of s if it is shorter.
LastN(s, n) == IF Len(s) <= n THEN s ELSE SubSeq(s, Len(s) - n + 1, Len(s))

ProbesAt(pcs) == {i \in 1..Len(probes) : probes[i].pc \in pcs}

\* A probe cycle that has pushed its sample and not yet ended.
AfterPush == {"lock_longest", "lock_total", "sleep"}

\* A probe cycle or a clear is between its first and its last write.
InCriticalSection ==
    \/ ProbesAt({"lock_data"} \cup AfterPush) # {}
    \/ ui.pc \in {"clear_data", "clear_total"}

\* C1: whenever the lock on the sample buffer is free, the buffer holds at
\* most Capacity samples, and they are the last min(n, Capacity) samples
\* appended since the last clear, in append order.
C1_BufferBounded ==
    holder["response_times"] = Free =>
        /\ Len(response_times) <= Capacity
        /\ response_times = LastN(hist.appended, Capacity)

\* An eviction has happened and the buffer can be observed.
C1_Witness ==
    /\ holder["response_times"] = Free
    /\ Len(hist.appended) > Capacity
    /\ Len(response_times) = Capacity
    /\ response_times[1] # hist.appended[1]

\* C2: longest_response_time never decreases, and outside the step between a
\* cycle's push and its update of the high-water mark it is the greatest
\* latency ever recorded, evicted and cleared samples included.
C2_LongestIsMaxEver ==
    /\ [](ProbesAt({"lock_longest"}) = {} => longest_response_time = hist.max_ever)
    /\ [][longest_response_time' >= longest_response_time]_vars

\* The greatest latency has been evicted from the buffer.
C2_Witness ==
    /\ ProbesAt({"lock_data"} \cup AfterPush) = {}
    /\ Len(hist.appended) > Capacity
    /\ longest_response_time > MaxOf(Latencies(response_times))
    /\ longest_response_time = hist.max_ever

\* C3: any two threshold-triggered log creations are at least DebounceSecs
\* apart.
C3_DebounceHolds ==
    \A a, b \in 1..Len(hist.autologs) :
        a < b => hist.autologs[b].at - hist.autologs[a].at >= DebounceSecs

\* Two logs have been created, the second as soon as the window allows.
C3_Witness ==
    /\ Len(hist.autologs) = 2
    /\ hist.autologs[2].at - hist.autologs[1].at = DebounceSecs

\* Probe i takes the step that updates the high-water mark and runs the
\* threshold logger.
ThresholdStep(i) == probes[i].pc = "lock_longest" /\ probes'[i].pc = "lock_total"

\* That step creates a log: a render is spawned and last_log_time is set.
LogCreated ==
    /\ Len(renders') = Len(renders) + 1
    /\ renders'[Len(renders')].pc = "lock_data"
    /\ last_log_time' = Some(now)
    /\ last_log_file_name' = Some(renders'[Len(renders')].name)

\* No clear has dropped a recorded sample, and no cycle is between its push
\* and its update of the high-water mark.
AllRecordedSettled ==
    /\ hist.recorded = Len(hist.appended)
    /\ ProbesAt({"lock_longest"}) = {}

\* C4: a cycle creates a log exactly when its latency is greater than
\* longest_response_time, greater than Threshold, and last_log_time is unset or
\* at least DebounceSecs old, and nothing else creates one;
\* longest_response_time is then as the cycle found it when it took its first
\* lock, since nothing else writes it while the cycle holds that lock; the
\* logs created have distinct names; the latencies 50, 60, 200 create one
\* log, on the third, and leave longest_response_time = 200.
C4_TriggerExactly ==
    /\ [][/\ \A i \in 1..Len(probes) :
                ThresholdStep(i) =>
                    (LogCreated <=>
                        /\ probes[i].ms > longest_response_time
                        /\ probes[i].ms > Threshold
                        /\ \/ last_log_time = None
                           \/ now - Unwrap(last_log_time) >= DebounceSecs)
          /\ renders' # renders /\ Len(renders') > Len(renders)
                => \E i \in 1..Len(probes) : ThresholdStep(i)
          /\ ProbesAt({"lock_data", "lock_longest"}) # {}
                /\ longest_response_time' # longest_response_time
                => \E i \in 1..Len(probes) : ThresholdStep(i)
         ]_vars
    /\ [](\A a, b \in 1..Len(hist.autologs) :
              a # b => hist.autologs[a].name # hist.autologs[b].name)
    /\ [](AllRecordedSettled =>
            /\ Latencies(hist.appended) \in {<<50>>, <<50, 60>>}
                  => hist.autologs = <<>> /\ renders = <<>>
            /\ Latencies(hist.appended) = <<50, 60, 200>>
                  => /\ Len(hist.autologs) = 1
                     /\ Len(renders) = 1
                     /\ longest_response_time = 200)

\* Two triggering samples 70 seconds apart have created two logs.
C4_Witness ==
    /\ Len(hist.autologs) = 2
    /\ hist.autologs[2].at - hist.autologs[1].at = 70
    /\ hist.autologs[1].name # hist.autologs[2].name
    /\ Len(renders) = 2

\* The latencies 50, 60, 200 have been recorded.
C4_Scenario ==
    /\ AllRecordedSettled
    /\ Latencies(hist.appended) = <<50, 60, 200>>
    /\ Len(hist.autologs) = 1

\* C5: total_data_sent changes only by a cycle counting its ProbeBytes, once
\* per cycle that pushed a sample, and by a clear resetting it; outside the
\* critical sections it is ProbeBytes times the samples appended since the
\* last clear.
C5_BytesPerCycle ==
    /\ [](~InCriticalSection => total_data_sent = ProbeBytes * Len(hist.appended))
    /\ [][/\ \A i \in 1..Len(probes) :
                probes[i].pc = "lock_total" /\ probes'[i].pc = "sleep"
                    => total_data_sent' = total_data_sent + ProbeBytes
          /\ total_data_sent' # total_data_sent =>
                \/ \E i \in 1..Len(probes) :
                      probes[i].pc = "lock_total" /\ probes'[i].pc = "sleep"
                \/ ui.pc = "clear_total" /\ ui'.pc = "idle" /\ total_data_sent' = 0
         ]_vars

\* A failed and a successful probe have both been counted.
C5_Witness ==
    /\ ~InCriticalSection
    /\ total_data_sent = ProbeBytes + ProbeBytes
    /\ \E k \in 1..Len(hist.appended) : hist.appended[k][2] = 0
    /\ \E k \in 1..Len(hist.appended) : hist.appended[k][2] > 0

\* C6: every dispatched probe cycle yields exactly one sample: the cycles
\* past their push, ended ones included, are as many as the samples recorded.
C6_OneSamplePerCycle ==
    Cardinality(ProbesAt(AfterPush \cup {"done"})) = hist.recorded

\* C7: a probe whose transport failed writes the status "Disconnected from
\* google.com.", pushes a sample of latency 0, leaves longest_response_time
\* as it is and spawns no render.
C7_FailedProbe ==
    [][\A i \in 1..Len(probes) :
          probes'[i].result = "err" \/ probes[i].result = "err" =>
            /\ probes[i].pc = "run" /\ probes'[i].pc = "lock_data"
                  => status' = "Disconnected from google.com."
            /\ probes[i].pc = "lock_data" /\ probes'[i].pc = "lock_longest"
                  => /\ Len(response_times') = Len(response_times) + 1
                     /\ response_times'[Len(response_times')][2] = 0
            /\ probes[i].pc = "lock_longest" /\ probes'[i].pc = "lock_total"
                  => /\ longest_response_time' = longest_response_time
                     /\ renders' = renders
                     /\ last_log_time' = last_log_time
                     /\ last_log_file_name' = last_log_file_name
      ]_vars

\* A failed probe has gone through the threshold logger.
C7_Witness ==
    \E i \in 1..Len(probes) :
        /\ probes[i].result = "err"
        /\ probes[i].pc = "lock_total"
        /\ status = "Disconnected from google.com."
        /\ response_times[Len(response_times)][2] = 0

\* C8: no successful probe is recorded with latency 0 or reported as
\* "Disconnected".
C8_ZeroOnlyOnFailure ==
    \A i \in ProbesAt(AfterPush) :
        probes[i].result = "ok" =>
            /\ hist.appended[Len(hist.appended)][2] # 0
            /\ status # "Disconnected from google.com."

\* A clear's last step.
ClearCompletes == ui.pc = "clear_total" /\ ui'.pc = "idle"

\* C9: when a clear completes, monitoring is off, the buffer is empty,
\* total_data_sent is 0, the status is "Not monitoring" and the marker is
\* "Data cleared".
C9_ClearPostcondition ==
    [][ClearCompletes =>
          /\ ~is_monitoring'
          /\ response_times' = <<>>
          /\ total_data_sent' = 0
          /\ status' = "Not monitoring"
          /\ log_status' = Some("Data cleared")
      ]_vars

\* A clear has completed after samples were recorded, with a cycle still in
\* flight.
C9_Witness ==
    /\ ui.pc = "idle"
    /\ log_status = Some("Data cleared")
    /\ hist.recorded > 0
    /\ hist.appended = <<>>
    /\ status = "Not monitoring"
    /\ ProbesAt({"run"}) # {}

\* C10 as stated: start_time and last_check are set exactly when monitoring
\* has been active since the last clear.
C10_SetIffActiveSinceClear ==
    (IsSome(start_time) /\ IsSome(last_check)) <=> hist.active_since_clear

\* C10 amended: start_time and last_check are set exactly when monitoring has
\* been started since the process began; a clear leaves them set.
C10_SetIffEverStarted ==
    /\ IsSome(start_time) <=> hist.started
    /\ IsSome(last_check) <=> hist.started

\* A clear has completed after a start, and no start has followed.
C10_Witness ==
    /\ ui.pc = "idle"
    /\ hist.started
    /\ ~hist.active_since_clear
    /\ IsSome(start_time)
    /\ IsSome(last_check)

\* log_data returns.
ExportReturns == ui.pc = "export_write" /\ ui'.pc = "idle"

ManualLog == {f \in files : f.name = ManualFileName}

\* C11: when log_data returns having created and written log.txt, it has set
\* the marker to "done" and started one timer of MarkerSecs, and has changed
\* nothing else that is shared; when the creation or the write failed, it has
\* changed nothing that is shared and started no timer.
C11_MarkerIffWritten ==
    [][ExportReturns =>
          /\ hist'.export \in FileOutcomes
          /\ IF hist'.export = "ok"
             THEN /\ log_status' = Some("done")
                  /\ timers' = Append(timers, now + MarkerSecs)
                  /\ \E f \in files' : f.name = ManualFileName /\ f.content # EmptyFile
             ELSE /\ log_status' = log_status
                  /\ timers' = timers
          /\ UNCHANGED <<status, response_times, total_data_sent,
                         longest_response_time, last_log_file_name,
                         last_log_time>>
      ]_vars

\* An export in which no retained sample passed the filter has set the marker.
C11_Witness ==
    /\ ui.pc = "idle"
    /\ hist.export = "ok"
    /\ response_times # <<>>
    /\ \E f \in ManualLog : f.content.body = "No data to log."
    /\ log_status = Some("done")
    /\ timers # <<>>

\* A probe cycle is dispatched.
Dispatch == Len(probes') = Len(probes) + 1

InFlight == {i \in 1..Len(probes) : probes[i].pc # "done"}

\* C12: a cycle is dispatched only while is_monitoring holds and last_check
\* is at least CheckIntervalSecs old, and the dispatch sets last_check to the
\* present instant; nothing but a dispatch and the Start button writes
\* last_check; a dispatch comes at least CheckIntervalSecs after the one
\* before it.
C12_DispatchCadence ==
    [][/\ Dispatch =>
            /\ is_monitoring /\ is_monitoring'
            /\ IsSome(last_check)
            /\ now - Unwrap(last_check) >= CheckIntervalSecs
            /\ last_check' = Some(now)
            /\ probes'[Len(probes')].pc = "run"
            /\ IsSome(hist.last_dispatch) =>
                  now - Unwrap(hist.last_dispatch) >= CheckIntervalSecs
       /\ last_check' # last_check =>
            \/ Dispatch
            \/ ~is_monitoring /\ is_monitoring' /\ start_time' = Some(now)
      ]_vars

\* Two cycles dispatched in two monitoring sessions are in flight at once.
C12_Witness ==
    /\ is_monitoring
    /\ hist.clicks = CadenceClicks
    /\ \E i, k \in InFlight :
          /\ i < k
          /\ probes[i].pc = "run"
          /\ probes[k].pc = "run"
          /\ probes[i].start_time_clone # probes[k].start_time_clone

\* One of the steps of Clear Data.
ClearStep ==
    \/ ui.pc = "idle" /\ ui'.pc = "clear_data"
    \/ ui.pc = "clear_data" /\ ui'.pc = "clear_total"
    \/ ClearCompletes

\* C13: a render thread that is about to create and write its file holds no
\* mutex.
C13_NoLockAcrossRender ==
    \A j \in 1..Len(renders) :
        renders[j].pc = "write" => \A l \in Locks : holder[l] # RenderThread(j)

\* C14: a probe cycle in its 100 ms sleep holds no mutex.
C14_NoLockDuringSleep ==
    \A i \in 1..Len(probes) :
        probes[i].pc = "sleep" => \A l \in Locks : holder[l] # ProbeThread(i)

\* C15: no step of Clear Data changes longest_response_time, last_log_time or
\* last_log_file_name; a cycle raises longest_response_time only with a
\* latency greater than every latency a clear has dropped, and creates a log
\* only with such a latency and DebounceSecs after every log created,
\* before a clear or after it.
C15_ClearKeepsHighWater ==
    [][/\ ClearStep =>
            UNCHANGED <<longest_response_time, last_log_time, last_log_file_name>>
       /\ \A i \in 1..Len(probes) :
            ThresholdStep(i) =>
              /\ longest_response_time' # longest_response_time
                    => /\ probes[i].ms > hist.max_cleared
                       /\ longest_response_time' = probes[i].ms
              /\ LogCreated
                    => /\ probes[i].ms > hist.max_cleared
                       /\ \A a \in 1..Len(hist.autologs) :
                             now - hist.autologs[a].at >= DebounceSecs
      ]_vars

\* After a clear, a cycle has recorded a latency over the threshold that
\* does not exceed the greatest one dropped: the high-water mark stands and
\* no second log has been created.
C15_Witness ==
    /\ ui.pc = "idle"
    /\ hist.max_cleared > Threshold
    /\ Len(hist.autologs) = 1
    /\ Len(hist.appended) = 1
    /\ \E i \in ProbesAt({"lock_total"}) :
          /\ probes[i].ms > Threshold
          /\ probes[i].ms < hist.max_cleared
          /\ now - hist.autologs[1].at >= DebounceSecs
    /\ longest_response_time = hist.max_cleared

\* The marker is written.
MarkerSet == log_status' # log_status /\ IsSome(log_status')

\* C16: every write of a text to the marker starts a timer of MarkerSecs and
\* nothing but a timer empties the marker; the marker is empty at every
\* instant later than MarkerSecs after the last such write, and in the end it
\* is empty for good.
C16_MarkerCleared ==
    /\ [][/\ MarkerSet =>
                (/\ ClearCompletes \/ ExportReturns
                 /\ timers' = Append(timers, now + MarkerSecs)
                 /\ hist'.marked = Some(now))
          /\ (log_status' # log_status /\ ~IsSome(log_status')) =>
               Len(timers') = Len(timers) - 1
         ]_vars
    /\ [](IsSome(hist.marked) /\ now > Unwrap(hist.marked) + MarkerSecs
              => log_status = None)
    /\ <>[](log_status = None)

\* The timer of an earlier clear or export has emptied the marker less than
\* MarkerSecs after a later one set it, whose own timer still sleeps.
C16_Witness ==
    /\ log_status = None
    /\ IsSome(hist.marked)
    /\ now - Unwrap(hist.marked) < MarkerSecs
    /\ Len(timers) = 1
    /\ timers[1] = Unwrap(hist.marked) + MarkerSecs
    /\ hist.export = "ok"

\* The place of each mutex in the order in which every thread takes them.
Rank(l) ==
    CASE l = "status" -> 1
      [] l = "response_times" -> 2
      [] l = "longest_response_time" -> 3
      [] l = "total_data_sent" -> 4

\* Thread t waits for a mutex that another thread holds.
Blocked(t) == Wants(t) # "none" /\ holder[Wants(t)] \notin {Free, t}

\* A thread that holds a mutex asks only for one later in the order.
LockOrder ==
    \A t \in Threads, l \in Locks :
        holder[l] = t /\ Wants(t) # "none" => Rank(l) < Rank(Wants(t))

\* No set of threads in which each waits for a mutex held by another of them.
NoWaitCycle ==
    \A S \in SUBSET {t \in Threads : Blocked(t)} :
        S # {} => \E t \in S : holder[Wants(t)] \notin S

\* Every probe cycle, render and timer has ended.
AllEnded ==
    /\ \A i \in 1..Len(probes) : probes[i].pc = "done"
    /\ \A j \in 1..Len(renders) : renders[j].pc = "done"
    /\ timers = <<>>

\* C18: the threads take the mutexes of status, response_times,
\* longest_response_time and total_data_sent in one order, and no set of them
\* wait for one another; the mutexes of last_log_time and last_log_file_name
\* are taken only by a cycle that holds the one of status, and the one of the
\* marker only in steps that take no other mutex before dropping it, so no
\* thread holding one of the three waits; and under the scheduling of
\* SpecFair every probe cycle, render and timer ends.
C18_NoDeadlock ==
    /\ [](LockOrder /\ NoWaitCycle)
    /\ [][/\ \A i \in 1..Len(probes) :
                ThresholdStep(i) =>
                    (/\ holder["status"] = ProbeThread(i)
                     /\ holder["response_times"] = ProbeThread(i))
          /\ (log_status' # log_status) =>
               (\A l \in Locks : holder'[l] \in {Free, holder[l]})
         ]_vars
    /\ <>[]AllEnded

\* The control surface is in a clear and holds the mutexes that a probe cycle
\* and a render wait for.
C18_Witness ==
    /\ ui.pc = "clear_total"
    /\ \E i \in 1..Len(probes) : Blocked(ProbeThread(i))
    /\ \E j \in 1..Len(renders) : Blocked(RenderThread(j))

\* The Log Data button is clicked.
ExportEnters == ui.pc = "idle" /\ ui'.pc = "export_data"

\* The cut of the export in progress: (now - 100 s) - start_time as taken on
\* entry, 0 if that is negative.
Cut == IF ui.end_time - ui.start > 0 THEN ui.end_time - ui.start ELSE 0

\* C17: log_data takes start_time, the present instant if monitoring was
\* never started, and the instant ExportWindowSecs ago; the file it writes
\* lists the retained samples whose elapsed seconds are greater than the cut,
\* in stored order; its body is "No data to log." exactly when there is none;
\* otherwise its average is the mean of the latencies of all retained
\* samples, and its total and longest are the counters as read.
C17_ExportFilter ==
    [][/\ ExportEnters =>
            /\ ui'.end_time = now - ExportWindowSecs
            /\ ui'.start = IF hist.started THEN Unwrap(start_time) ELSE now
       /\ (ExportReturns /\ hist'.export = "ok") =>
            \E f \in files' :
              /\ f.name = ManualFileName
              /\ \A g \in files' : g.name = ManualFileName => g = f
              /\ f.content.lines =
                    SelectSeq(response_times, LAMBDA sample : sample[1] > Cut)
              /\ f.content.body = "No data to log." <=> f.content.lines = <<>>
              /\ f.content.body = "data" <=> f.content.lines # <<>>
              /\ f.content.lines # <<>> =>
                    /\ 2 * Len(response_times) * f.content.average
                          <= 2 * SumMs(response_times) + Len(response_times)
                    /\ 2 * Len(response_times) * f.content.average
                          >= 2 * SumMs(response_times) - Len(response_times)
                    /\ f.content.total = ui.total
                    /\ f.content.longest = ui.longest
      ]_vars

\* An export has left out the sample that is exactly on the cut and reported
\* the average over both samples.
C17_Witness ==
    /\ ui.pc = "idle"
    /\ hist.export = "ok"
    /\ response_times = << <<1, 0>>, <<101, 200>> >>
    /\ \E f \in ManualLog :
          /\ f.content.lines = << <<101, 200>> >>
          /\ f.content.average = 100
    /\ log_status = Some("done")

\* Render thread j creates and writes its file, or fails to.
RenderWrites(j) == renders[j].pc = "write" /\ renders'[j].pc = "done"

\* A render thread or an export has read, or is reading, the store.
RendersReading == {j \in 1..Len(renders) :
                      renders[j].pc \in {"read_total", "read_longest", "write"}}
ExportReading == ui.pc \in {"export_total", "export_longest", "export_write"}

\* What a log prints belongs to one state of the store: its total counts
\* ProbeBytes for every sample appended since the last clear, its longest is
\* the greatest latency ever recorded, and its lines are samples appended
\* since the last clear, none above the longest.
PrintsOneState(content) ==
    content.body = "data" =>
        /\ content.total = ProbeBytes * Len(hist.appended)
        /\ content.longest = hist.max_ever
        /\ \A k \in 1..Len(content.lines) :
              /\ content.lines[k][2] <= content.longest
              /\ \E n \in 1..Len(hist.appended) :
                    hist.appended[n] = content.lines[k]

\* C19: every log written prints one state of the store, an automatic one
\* all the samples retained; while a render or an export reads the store no
\* probe cycle is between its push and its end and no clear between its
\* writes; and a render reads only after the cycle that spawned it has ended,
\* last_log_time set.
C19_LogsConsistent ==
    /\ [][/\ \A j \in 1..Len(renders) :
                RenderWrites(j) =>
                    \A f \in files' :
                        (f.name = renders[j].name /\ f.content # EmptyFile) =>
                            /\ PrintsOneState(f.content)
                            /\ f.content.lines = LastN(hist.appended, Capacity)
                            /\ f.content.body = "No data to log."
                                  => total_data_sent = 0
          /\ (ExportReturns /\ hist'.export = "ok") =>
               \A f \in files' :
                   f.name = ManualFileName => PrintsOneState(f.content)
         ]_vars
    /\ [](\A j \in RendersReading :
              /\ ProbesAt(AfterPush) = {}
              /\ ui.pc # "clear_total"
              /\ probes[hist.autologs[j].by].pc = "done"
              /\ IsSome(last_log_time)
              /\ Unwrap(last_log_time) >= hist.autologs[j].at)
    /\ [](ExportReading => ProbesAt(AfterPush) = {})

\* An automatic log has been written after a second cycle ended: it prints
\* both samples and the bytes of both.
C19_Witness ==
    \E f \in files :
        /\ f.name # ManualFileName
        /\ f.content.body = "data"
        /\ Len(f.content.lines) = 2
        /\ f.content.lines[1][2] > Threshold
        /\ f.content.total = ProbeBytes + ProbeBytes
        /\ f.content.longest = f.content.lines[1][2]

\* The start_time each retained sample was measured from.
RetainedStarts == LastN(hist.starts, Len(response_times))

\* C20: the retained samples are the last ones appended, in append order,
\* and of two retained samples measured from the same start_time the one
\* stored earlier has the smaller or the same elapsed seconds.
C20_Chronological ==
    /\ response_times = LastN(hist.appended, Len(response_times))
    /\ \A a, b \in 1..Len(response_times) :
          (a < b /\ RetainedStarts[a] = RetainedStarts[b]) =>
              response_times[a][1] <= response_times[b][1]

\* Two cycles of one session overlapped and the one dispatched second stored
\* its sample first.
C20_Witness ==
    /\ Len(probes) >= 2
    /\ probes[1].pc \in AfterPush
    /\ probes[2].pc = "done"
    /\ hist.dropped = 0
    /\ Len(response_times) = 2
    /\ RetainedStarts[1] = RetainedStarts[2]
    /\ response_times[1][1] < response_times[2][1]

\* C20 without its restriction to one session: stored order is the order of
\* elapsed seconds for any two retained samples.
C20_AcrossSessions ==
    \A a, b \in 1..Len(response_times) :
        a < b => response_times[a][1] <= response_times[b][1]

=============================================================================
